---- MODULE Spec2Model ----
(***************************************************************************)
(* A model of the concurrency constructs of day0/topics:                   *)
(*   Cache        (lazy_initialization.go) double-checked-lock keyed cache *)
(*   LazyConfig   (lazy_initialization.go) mutex-guarded lazy value        *)
(*   ImmutableMap (immutable_data.go)      copy-on-write map               *)
(* Goroutines are the processes of Procs.  Every statement that touches    *)
(* shared state is one step; sync.RWMutex and sync.Mutex are modelled by   *)
(* their contract (readers exclude the writer, the writer excludes all).   *)
(* A deferred Unlock runs when the function returns and when it panics.    *)
(* Each component has its own specification (SpecCache, SpecLazy,          *)
(* SpecMap); the variables of the other components stay at their initial   *)
(* values.                                                                 *)
(***************************************************************************)
EXTENDS Integers, FiniteSets, Sequences, TLC

\* ------------------------------------------------------------------ bounds
NumProcs == 2      \* goroutines calling into a component
MaxCalls == 2      \* calls each goroutine makes
MaxPanics == 1     \* loader / loadFunc invocations that panic, in total

Procs == 1..NumProcs
Keys == {"a", "b"}
None == 0          \* no holder of a lock

VARIABLES
    pc,            \* pc[p]: the statement goroutine p executes next
    calls,         \* calls[p]: calls p has started
    outcome,       \* outcome[p]: how p's last call ended: "none", "ret", "panic"
    key,           \* key[p]: the key argument of p's current call
    val,           \* val[p]: the local val / the value p's last call returned
    ok,            \* ok[p]: the boolean p's last call read (found, loaded)
    \* Cache
    cacheData,     \* Cache.data: a function from the present keys to values
    cacheLoader,   \* Cache.loader: "fn", or "nil" for NewCache(nil)
    cacheMu,       \* Cache.mu: [readers |-> set of procs, writer |-> proc or None]
    loaderCalls,   \* history: loaderCalls[k] invocations of loader(k)
    loaderPanics,  \* history: loaderPanics[k] Get(k) calls that ended in a panic
    loaderRets,    \* history: loaderRets[k] the values loader(k) returned
    cacheRet,      \* history: cacheRet[k] the values Get(k) calls returned
    \* LazyConfig
    lcConfig,      \* LazyConfig.config: 0 is the zero value, n the n-th load's result
    lcLoaded,      \* LazyConfig.loaded
    lcLoadFunc,    \* LazyConfig.loadFunc: "fn", or "nil" for NewLazyConfig(nil)
    lcMu,          \* LazyConfig.mu
    loadCalls,     \* history: invocations of loadFunc
    loadPanics,    \* history: Get calls that ended in a panic
    loadRets,      \* history: the values loadFunc returned
    lcRet,         \* history: the values Get calls returned
    lcGets,        \* history: [started, returned] Get calls
    lcSeen,        \* history: lcSeen[p] the value of loaded when p's Get was called
    \* ImmutableMap
    heap,          \* the maps allocated so far: heap[i] is the map with reference i
    mapData,       \* ImmutableMap.data: a reference into heap
    mapMu,         \* ImmutableMap.mu
    newData,       \* newData[p]: the local newData of p's Set (0: none)
    snapshots,     \* history: the snapshots Set calls were to publish, in order
    pubIds,        \* history: the references ImmutableMap.data has held
    since,         \* since[p]: Len(snapshots) when p's Get was called
    lastSet,       \* history: lastSet[k] the value of the last Set(k, v) that returned (0: none)
    mapOps,        \* history: [gets, sets] calls of m.Get and m.Set started
    \* ServiceRegistry
    name,          \* name[p]: the name argument of p's GetService
    svc,           \* svc[p]: what p's last GetService returned
    caller,        \* caller[p]: the method p called, to which Initialize returns
    srServices,    \* ServiceRegistry.services: a function from names to services
    srInitDone,    \* ServiceRegistry.initDone
    onceDone,      \* ServiceRegistry.once: its done flag
    onceMu,        \* ServiceRegistry.once: its mutex
    initRuns,      \* history: runs of the function Initialize hands to once.Do
    \* ImmutableSlice
    slArrs,        \* the backing arrays: slArrs[i] is the array with reference i
    slData,        \* ImmutableSlice.data: a reference into slArrs
    slHeld,        \* slHeld[p]: the slice p got from its last Get (0: none)
    slLen,         \* what the last Len returned
    slAppended,    \* history: the values appended, in order
    slGets,        \* history: s.Get calls
    slDirtyAt,     \* history: slGets at the first write of a caller into a slice it got (0: none)
    \* BatchHTTPClient
    bBatchSize,    \* BatchHTTPClient.batchSize
    bPending,      \* BatchHTTPClient.pending: the requests, in order
    bMu,           \* BatchHTTPClient.mu
    bReq,          \* bReq[p]: the request of p's current or last Send
    bRequests,     \* bRequests[p]: the local requests of p's flush
    bSent,         \* history: c.Send calls started
    bFlushCount,   \* history: bFlushCount[r] the flushed batches request r was in
    bFlushers,     \* history: the requests whose Send went on to flush
    bCallers,      \* history: the goroutines that have called Send
    \* Buffer and pool
    bufLength,     \* bufLength[i]: Buffer.Length of buffer i
    bufAlloc,      \* the buffers the pool's New has made
    poolItems,     \* pool: the buffers in it
    bufHeld,       \* bufHeld[p]: the buffer goroutine p holds (0: none)
    bufFromPool,   \* history: bufFromPool[p] p's buffer had been in the pool before
    bufWritten,    \* history: the buffers that have been written
    \* AddByValue and AddByPointer
    addA,          \* the argument a: its Field1 and Field2
    addB,          \* the argument b
    addDone,       \* the calls made: "value", "pointer"
    addValueRet,   \* what AddByValue(a, b) returned
    addPointerRet  \* what AddByPointer(&a, &b) returned

procVars == <<pc, calls, outcome, key, val, ok>>
cacheVars == <<cacheData, cacheLoader, cacheMu, loaderCalls, loaderPanics, loaderRets, cacheRet>>
lazyVars == <<lcConfig, lcLoaded, lcLoadFunc, lcMu, loadCalls, loadPanics, loadRets,
              lcRet, lcGets, lcSeen>>
mapVars == <<heap, mapData, mapMu, newData, snapshots, pubIds, since, lastSet, mapOps>>
regVars == <<name, svc, caller, srServices, srInitDone, onceDone, onceMu, initRuns>>
sliceVars == <<slArrs, slData, slHeld, slLen, slAppended, slGets, slDirtyAt>>
batchVars == <<bBatchSize, bPending, bMu, bReq, bRequests, bSent, bFlushCount, bFlushers, bCallers>>
poolVars == <<bufLength, bufAlloc, poolItems, bufHeld, bufFromPool, bufWritten>>
addVars == <<addA, addB, addDone, addValueRet, addPointerRet>>
vars == <<procVars, cacheVars, lazyVars, mapVars, regVars, sliceVars, batchVars, poolVars, addVars>>
notCache == <<lazyVars, mapVars, regVars, sliceVars, batchVars, poolVars, addVars>>
notLazy == <<cacheVars, mapVars, regVars, sliceVars, batchVars, poolVars, addVars>>
notMap == <<cacheVars, lazyVars, regVars, sliceVars, batchVars, poolVars, addVars>>
notReg == <<cacheVars, lazyVars, mapVars, sliceVars, batchVars, poolVars, addVars>>
notSlice == <<cacheVars, lazyVars, mapVars, regVars, batchVars, poolVars, addVars>>
notBatch == <<cacheVars, lazyVars, mapVars, regVars, sliceVars, poolVars, addVars>>
notPool == <<cacheVars, lazyVars, mapVars, regVars, sliceVars, batchVars, addVars>>
notAdd == <<cacheVars, lazyVars, mapVars, regVars, sliceVars, batchVars, poolVars>>

\* ------------------------------------------------------------ Go helpers
\* m[k] = v on a Go map: k is added or its value replaced.
MapAssign(m, k, v) == [x \in DOMAIN m \cup {k} |-> IF x = k THEN v ELSE m[x]]
EmptyMap == [x \in {} |-> 0]
\* The zero value of sync.RWMutex / sync.Mutex.
UnlockedMu == [readers |-> {}, writer |-> None]
\* An RLock that does not wait for the writer.
CanRLockAlways(mu) == TRUE
\* RLock returns only while no writer holds the lock.
CanRLock(mu) == mu.writer = None
\* A Lock that does not wait for the readers.
CanLockIgnoringReaders(mu) == mu.writer = None
\* Lock returns only while nobody holds the lock.
CanLock(mu) == mu.writer = None /\ mu.readers = {}
RLocked(mu, p) == [mu EXCEPT !.readers = @ \cup {p}]
RUnlocked(mu, p) == [mu EXCEPT !.readers = @ \ {p}]
Locked(mu, p) == [mu EXCEPT !.writer = p]
Unlocked(mu) == [mu EXCEPT !.writer = None]
TotalPanics == loaderPanics["a"] + loaderPanics["b"]

\* ------------------------------------------------------------------ Cache
\* NewCache(loader): no argument is rejected.
NewCache(loader) == [data |-> EmptyMap, loader |-> loader]

InitProcs ==
    /\ pc = [p \in Procs |-> "idle"]
    /\ calls = [p \in Procs |-> 0]
    /\ outcome = [p \in Procs |-> "none"]
    /\ key = [p \in Procs |-> "a"]
    /\ val = [p \in Procs |-> 0]
    /\ ok = [p \in Procs |-> FALSE]

InitCacheWith(loaders) ==
    /\ \E l \in loaders :
          /\ cacheData = NewCache(l).data
          /\ cacheLoader = NewCache(l).loader
    /\ cacheMu = UnlockedMu
    /\ loaderCalls = [k \in Keys |-> 0]
    /\ loaderPanics = [k \in Keys |-> 0]
    /\ loaderRets = [k \in Keys |-> {}]
    /\ cacheRet = [k \in Keys |-> {}]

\* A goroutine calls c.Get(k).
CacheCall(p, k) ==
    /\ pc[p] = "idle"
    /\ calls[p] < MaxCalls
    /\ pc' = [pc EXCEPT ![p] = "c_rlock"]
    /\ calls' = [calls EXCEPT ![p] = @ + 1]
    /\ outcome' = [outcome EXCEPT ![p] = "none"]
    /\ key' = [key EXCEPT ![p] = k]
    /\ val' = [val EXCEPT ![p] = 0]
    /\ UNCHANGED <<ok, cacheVars>>
    /\ UNCHANGED notCache

\* c.mu.RLock()
CacheRLock(p) ==
    /\ pc[p] = "c_rlock"
    /\ CanRLock(cacheMu)
    /\ cacheMu' = RLocked(cacheMu, p)
    /\ pc' = [pc EXCEPT ![p] = "c_fast"]
    /\ UNCHANGED <<calls, outcome, key, val, ok, cacheData, cacheLoader,
                   loaderCalls, loaderPanics, loaderRets, cacheRet>>
    /\ UNCHANGED notCache

\* A fast path that keeps the read lock when it goes on to the slow path.
CacheFastMissKeepsRLock(p) ==
    /\ pc[p] = "c_fast"
    /\ IF key[p] \in DOMAIN cacheData
          THEN /\ cacheMu' = RUnlocked(cacheMu, p)
               /\ val' = [val EXCEPT ![p] = cacheData[key[p]]]
               /\ pc' = [pc EXCEPT ![p] = "idle"]
               /\ outcome' = [outcome EXCEPT ![p] = "ret"]
               /\ cacheRet' = [cacheRet EXCEPT ![key[p]] = @ \cup {cacheData[key[p]]}]
          ELSE /\ pc' = [pc EXCEPT ![p] = "c_lock"]
               /\ UNCHANGED <<val, outcome, cacheRet, cacheMu>>
    /\ UNCHANGED <<calls, key, ok, cacheData, cacheLoader, loaderCalls, loaderPanics, loaderRets>>
    /\ UNCHANGED notCache

\* Fast path: the lookup under the read lock, RUnlock, and the return on a hit.
CacheFast(p) ==
    /\ pc[p] = "c_fast"
    /\ cacheMu' = RUnlocked(cacheMu, p)
    /\ IF key[p] \in DOMAIN cacheData
          THEN /\ val' = [val EXCEPT ![p] = cacheData[key[p]]]
               /\ pc' = [pc EXCEPT ![p] = "idle"]
               /\ outcome' = [outcome EXCEPT ![p] = "ret"]
               /\ cacheRet' = [cacheRet EXCEPT ![key[p]] = @ \cup {cacheData[key[p]]}]
          ELSE /\ pc' = [pc EXCEPT ![p] = "c_lock"]
               /\ UNCHANGED <<val, outcome, cacheRet>>
    /\ UNCHANGED <<calls, key, ok, cacheData, cacheLoader, loaderCalls, loaderPanics, loaderRets>>
    /\ UNCHANGED notCache

\* A slow path that takes no write lock.
CacheLockNoLock(p) ==
    /\ pc[p] = "c_lock"
    /\ pc' = [pc EXCEPT ![p] = "c_check"]
    /\ UNCHANGED <<calls, outcome, key, val, ok, cacheVars>>
    /\ UNCHANGED notCache

\* Slow path: c.mu.Lock(); defer c.mu.Unlock()
CacheLock(p) ==
    /\ pc[p] = "c_lock"
    /\ CanLock(cacheMu)
    /\ cacheMu' = Locked(cacheMu, p)
    /\ pc' = [pc EXCEPT ![p] = "c_check"]
    /\ UNCHANGED <<calls, outcome, key, val, ok, cacheData, cacheLoader,
                   loaderCalls, loaderPanics, loaderRets, cacheRet>>
    /\ UNCHANGED notCache

\* A slow path that skips the second lookup.
CacheCheckNoRecheck(p) ==
    /\ pc[p] = "c_check"
    /\ pc' = [pc EXCEPT ![p] = "c_load"]
    /\ UNCHANGED <<calls, outcome, key, val, ok, cacheVars>>
    /\ UNCHANGED notCache

\* Double-check after acquiring the write lock.
CacheCheck(p) ==
    /\ pc[p] = "c_check"
    /\ IF key[p] \in DOMAIN cacheData
          THEN /\ val' = [val EXCEPT ![p] = cacheData[key[p]]]
               /\ pc' = [pc EXCEPT ![p] = "c_unlock"]
          ELSE /\ pc' = [pc EXCEPT ![p] = "c_load"]
               /\ UNCHANGED val
    /\ UNCHANGED <<calls, outcome, key, ok, cacheVars>>
    /\ UNCHANGED notCache

\* val := c.loader(key), the call: a nil loader panics at the call, any other
\* loader starts to run.
CacheLoadCall(p) ==
    /\ pc[p] = "c_load"
    /\ IF cacheLoader = "nil"
          THEN /\ pc' = [pc EXCEPT ![p] = "c_panic"]
               /\ UNCHANGED loaderCalls
          ELSE /\ pc' = [pc EXCEPT ![p] = "c_loading"]
               /\ loaderCalls' = [loaderCalls EXCEPT ![key[p]] = @ + 1]
    /\ UNCHANGED <<calls, outcome, key, val, ok, cacheData, cacheLoader, cacheMu,
                   loaderPanics, loaderRets, cacheRet>>
    /\ UNCHANGED notCache

\* The loader returns.  It is the caller's function and need not be pure: its
\* n-th invocation for a key returns n.
CacheLoadReturn(p) ==
    /\ pc[p] = "c_loading"
    /\ val' = [val EXCEPT ![p] = loaderCalls[key[p]]]
    /\ loaderRets' = [loaderRets EXCEPT ![key[p]] = @ \cup {loaderCalls[key[p]]}]
    /\ pc' = [pc EXCEPT ![p] = "c_store"]
    /\ UNCHANGED <<calls, outcome, key, ok, cacheData, cacheLoader, cacheMu,
                   loaderCalls, loaderPanics, cacheRet>>
    /\ UNCHANGED notCache

\* The loader panics.
CacheLoadPanic(p) ==
    /\ pc[p] = "c_loading"
    /\ TotalPanics < MaxPanics
    /\ pc' = [pc EXCEPT ![p] = "c_panic"]
    /\ UNCHANGED <<calls, outcome, key, val, ok, cacheVars>>
    /\ UNCHANGED notCache

\* A store that replaces the map by one holding only the new entry.
CacheStoreReplace(p) ==
    /\ pc[p] = "c_store"
    /\ cacheData' = MapAssign(EmptyMap, key[p], val[p])
    /\ pc' = [pc EXCEPT ![p] = "c_unlock"]
    /\ UNCHANGED <<calls, outcome, key, val, ok, cacheLoader, cacheMu,
                   loaderCalls, loaderPanics, loaderRets, cacheRet>>
    /\ UNCHANGED notCache

\* c.data[key] = val
CacheStore(p) ==
    /\ pc[p] = "c_store"
    /\ cacheData' = MapAssign(cacheData, key[p], val[p])
    /\ pc' = [pc EXCEPT ![p] = "c_unlock"]
    /\ UNCHANGED <<calls, outcome, key, val, ok, cacheLoader, cacheMu,
                   loaderCalls, loaderPanics, loaderRets, cacheRet>>
    /\ UNCHANGED notCache

\* return val: the deferred c.mu.Unlock() runs and Get returns.
CacheUnlock(p) ==
    /\ pc[p] = "c_unlock"
    /\ cacheMu' = Unlocked(cacheMu)
    /\ pc' = [pc EXCEPT ![p] = "idle"]
    /\ outcome' = [outcome EXCEPT ![p] = "ret"]
    /\ cacheRet' = [cacheRet EXCEPT ![key[p]] = @ \cup {val[p]}]
    /\ UNCHANGED <<calls, key, val, ok, cacheData, cacheLoader,
                   loaderCalls, loaderPanics, loaderRets>>
    /\ UNCHANGED notCache

\* A Get whose Unlock is not deferred: the panic leaves the lock held.
CachePanicNoUnlock(p) ==
    /\ pc[p] = "c_panic"
    /\ pc' = [pc EXCEPT ![p] = "idle"]
    /\ outcome' = [outcome EXCEPT ![p] = "panic"]
    /\ loaderPanics' = [loaderPanics EXCEPT ![key[p]] = @ + 1]
    /\ UNCHANGED <<calls, key, val, ok, cacheData, cacheLoader, cacheMu,
                   loaderCalls, loaderRets, cacheRet>>
    /\ UNCHANGED notCache

\* The panic unwinds Get: the deferred c.mu.Unlock() runs and the panic reaches
\* the caller (who recovers, or the goroutine makes no further call).
CachePanicUnlock(p) ==
    /\ pc[p] = "c_panic"
    /\ cacheMu' = Unlocked(cacheMu)
    /\ pc' = [pc EXCEPT ![p] = "idle"]
    /\ outcome' = [outcome EXCEPT ![p] = "panic"]
    /\ loaderPanics' = [loaderPanics EXCEPT ![key[p]] = @ + 1]
    /\ UNCHANGED <<calls, key, val, ok, cacheData, cacheLoader,
                   loaderCalls, loaderRets, cacheRet>>
    /\ UNCHANGED notCache

CacheGet(p) ==
    \/ \E k \in Keys : CacheCall(p, k)
    \/ CacheRLock(p)
    \/ CacheFast(p)
    \/ CacheLock(p)
    \/ CacheCheck(p)
    \/ CacheLoadCall(p)
    \/ CacheLoadReturn(p)
    \/ CacheLoadPanic(p)
    \/ CacheStore(p)
    \/ CacheUnlock(p)
    \/ CachePanicUnlock(p)

\* ------------------------------------------------------------- LazyConfig
\* NewLazyConfig(loadFunc): no argument is rejected; config is the zero value.
NewLazyConfig(loadFunc) == [config |-> 0, loaded |-> FALSE, loadFunc |-> loadFunc]

InitLazyWith(loadFuncs) ==
    /\ \E f \in loadFuncs :
          /\ lcConfig = NewLazyConfig(f).config
          /\ lcLoaded = NewLazyConfig(f).loaded
          /\ lcLoadFunc = NewLazyConfig(f).loadFunc
    /\ lcMu = UnlockedMu
    /\ loadCalls = 0
    /\ loadPanics = 0
    /\ loadRets = {}
    /\ lcRet = {}
    /\ lcGets = [started |-> 0, returned |-> 0]
    /\ lcSeen = [p \in Procs |-> FALSE]

\* A goroutine calls lc.Get().
LazyCall(p) ==
    /\ pc[p] = "idle"
    /\ calls[p] < MaxCalls
    /\ pc' = [pc EXCEPT ![p] = "l_lock"]
    /\ calls' = [calls EXCEPT ![p] = @ + 1]
    /\ outcome' = [outcome EXCEPT ![p] = "none"]
    /\ val' = [val EXCEPT ![p] = 0]
    /\ lcGets' = [lcGets EXCEPT !.started = @ + 1]
    /\ lcSeen' = [lcSeen EXCEPT ![p] = lcLoaded]
    /\ UNCHANGED <<key, ok, lcConfig, lcLoaded, lcLoadFunc, lcMu, loadCalls, loadPanics,
                   loadRets, lcRet>>
    /\ UNCHANGED notLazy

\* A Get that takes the mutex only when loaded was false at its call.
LazyLockIfUnloaded(p) ==
    /\ pc[p] = "l_lock"
    /\ lcSeen[p] \/ CanLock(lcMu)
    /\ lcMu' = IF lcSeen[p] THEN lcMu ELSE Locked(lcMu, p)
    /\ pc' = [pc EXCEPT ![p] = "l_check"]
    /\ UNCHANGED <<calls, outcome, key, val, ok, lcConfig, lcLoaded, lcLoadFunc,
                   loadCalls, loadPanics, loadRets, lcRet, lcGets, lcSeen>>
    /\ UNCHANGED notLazy

\* lc.mu.Lock(); defer lc.mu.Unlock()
LazyLock(p) ==
    /\ pc[p] = "l_lock"
    /\ CanLock(lcMu)
    /\ lcMu' = Locked(lcMu, p)
    /\ pc' = [pc EXCEPT ![p] = "l_check"]
    /\ UNCHANGED <<calls, outcome, key, val, ok, lcConfig, lcLoaded, lcLoadFunc,
                   loadCalls, loadPanics, loadRets, lcRet, lcGets, lcSeen>>
    /\ UNCHANGED notLazy

\* A Get that loads whatever loaded says.
LazyCheckAlwaysLoad(p) ==
    /\ pc[p] = "l_check"
    /\ pc' = [pc EXCEPT ![p] = "l_load"]
    /\ UNCHANGED <<calls, outcome, key, val, ok, lazyVars>>
    /\ UNCHANGED notLazy

\* if !lc.loaded
LazyCheck(p) ==
    /\ pc[p] = "l_check"
    /\ pc' = [pc EXCEPT ![p] = IF lcLoaded THEN "l_unlock" ELSE "l_load"]
    /\ UNCHANGED <<calls, outcome, key, val, ok, lazyVars>>
    /\ UNCHANGED notLazy

\* A load that sets loaded before loadFunc has been called.
LazyLoadCallSetsLoaded(p) ==
    /\ pc[p] = "l_load"
    /\ lcLoaded' = TRUE
    /\ IF lcLoadFunc = "nil"
          THEN /\ pc' = [pc EXCEPT ![p] = "l_panic"]
               /\ UNCHANGED loadCalls
          ELSE /\ pc' = [pc EXCEPT ![p] = "l_loading"]
               /\ loadCalls' = loadCalls + 1
    /\ UNCHANGED <<calls, outcome, key, val, ok, lcConfig, lcLoadFunc, lcMu,
                   loadPanics, loadRets, lcRet, lcGets, lcSeen>>
    /\ UNCHANGED notLazy

\* lc.config = lc.loadFunc(), the call: a nil loadFunc panics at the call.
LazyLoadCall(p) ==
    /\ pc[p] = "l_load"
    /\ IF lcLoadFunc = "nil"
          THEN /\ pc' = [pc EXCEPT ![p] = "l_panic"]
               /\ UNCHANGED loadCalls
          ELSE /\ pc' = [pc EXCEPT ![p] = "l_loading"]
               /\ loadCalls' = loadCalls + 1
    /\ UNCHANGED <<calls, outcome, key, val, ok, lcConfig, lcLoaded, lcLoadFunc, lcMu,
                   loadPanics, loadRets, lcRet, lcGets, lcSeen>>
    /\ UNCHANGED notLazy

\* loadFunc returns and its result is assigned to lc.config: the n-th
\* invocation returns n.
LazyLoadReturn(p) ==
    /\ pc[p] = "l_loading"
    /\ lcConfig' = loadCalls
    /\ loadRets' = loadRets \cup {loadCalls}
    /\ pc' = [pc EXCEPT ![p] = "l_setloaded"]
    /\ UNCHANGED <<calls, outcome, key, val, ok, lcLoaded, lcLoadFunc, lcMu,
                   loadCalls, loadPanics, lcRet, lcGets, lcSeen>>
    /\ UNCHANGED notLazy

\* loadFunc panics: the assignment and loaded = true are not reached.
LazyLoadPanic(p) ==
    /\ pc[p] = "l_loading"
    /\ loadPanics < MaxPanics
    /\ pc' = [pc EXCEPT ![p] = "l_panic"]
    /\ UNCHANGED <<calls, outcome, key, val, ok, lazyVars>>
    /\ UNCHANGED notLazy

\* A Get that never sets loaded.
LazySetLoadedSkip(p) ==
    /\ pc[p] = "l_setloaded"
    /\ pc' = [pc EXCEPT ![p] = "l_unlock"]
    /\ UNCHANGED <<calls, outcome, key, val, ok, lazyVars>>
    /\ UNCHANGED notLazy

\* lc.loaded = true
LazySetLoaded(p) ==
    /\ pc[p] = "l_setloaded"
    /\ lcLoaded' = TRUE
    /\ pc' = [pc EXCEPT ![p] = "l_unlock"]
    /\ UNCHANGED <<calls, outcome, key, val, ok, lcConfig, lcLoadFunc, lcMu,
                   loadCalls, loadPanics, loadRets, lcRet, lcGets, lcSeen>>
    /\ UNCHANGED notLazy

\* return lc.config: the deferred lc.mu.Unlock() runs and Get returns.
LazyUnlock(p) ==
    /\ pc[p] = "l_unlock"
    /\ val' = [val EXCEPT ![p] = lcConfig]
    /\ lcMu' = Unlocked(lcMu)
    /\ pc' = [pc EXCEPT ![p] = "idle"]
    /\ outcome' = [outcome EXCEPT ![p] = "ret"]
    /\ lcRet' = lcRet \cup {lcConfig}
    /\ lcGets' = [lcGets EXCEPT !.returned = @ + 1]
    /\ lcSeen' = [lcSeen EXCEPT ![p] = FALSE]
    /\ UNCHANGED <<calls, key, ok, lcConfig, lcLoaded, lcLoadFunc, loadCalls, loadPanics,
                   loadRets>>
    /\ UNCHANGED notLazy

\* A Get that marks the config loaded when loadFunc panics (as sync.Once would).
LazyPanicUnlockLoaded(p) ==
    /\ pc[p] = "l_panic"
    /\ lcMu' = Unlocked(lcMu)
    /\ lcLoaded' = TRUE
    /\ pc' = [pc EXCEPT ![p] = "idle"]
    /\ outcome' = [outcome EXCEPT ![p] = "panic"]
    /\ loadPanics' = loadPanics + 1
    /\ UNCHANGED <<calls, key, val, ok, lcConfig, lcLoadFunc, loadCalls,
                   loadRets, lcRet, lcGets, lcSeen>>
    /\ UNCHANGED notLazy

\* The panic unwinds Get: the deferred lc.mu.Unlock() runs and the panic
\* reaches the caller.
LazyPanicUnlock(p) ==
    /\ pc[p] = "l_panic"
    /\ lcMu' = Unlocked(lcMu)
    /\ pc' = [pc EXCEPT ![p] = "idle"]
    /\ outcome' = [outcome EXCEPT ![p] = "panic"]
    /\ loadPanics' = loadPanics + 1
    /\ UNCHANGED <<calls, key, val, ok, lcConfig, lcLoaded, lcLoadFunc, loadCalls,
                   loadRets, lcRet, lcGets, lcSeen>>
    /\ UNCHANGED notLazy

LazyGet(p) ==
    \/ LazyCall(p)
    \/ LazyLock(p)
    \/ LazyCheck(p)
    \/ LazyLoadCall(p)
    \/ LazyLoadReturn(p)
    \/ LazyLoadPanic(p)
    \/ LazySetLoaded(p)
    \/ LazyUnlock(p)
    \/ LazyPanicUnlock(p)

\* A goroutine calls lc.IsLoaded().
IsLoadedCall(p) ==
    /\ pc[p] = "idle"
    /\ calls[p] < MaxCalls
    /\ pc' = [pc EXCEPT ![p] = "i_lock"]
    /\ calls' = [calls EXCEPT ![p] = @ + 1]
    /\ outcome' = [outcome EXCEPT ![p] = "none"]
    /\ UNCHANGED <<key, val, ok, lazyVars>>
    /\ UNCHANGED notLazy

\* lc.mu.Lock(); defer lc.mu.Unlock()
IsLoadedLock(p) ==
    /\ pc[p] = "i_lock"
    /\ CanLock(lcMu)
    /\ lcMu' = Locked(lcMu, p)
    /\ pc' = [pc EXCEPT ![p] = "i_read"]
    /\ UNCHANGED <<calls, outcome, key, val, ok, lcConfig, lcLoaded, lcLoadFunc,
                   loadCalls, loadPanics, loadRets, lcRet, lcGets, lcSeen>>
    /\ UNCHANGED notLazy

\* An IsLoaded that loads the config when it is not loaded.
IsLoadedReadLoads(p) ==
    /\ pc[p] = "i_read"
    /\ lcConfig' = IF lcLoaded THEN lcConfig ELSE loadCalls + 1
    /\ loadCalls' = IF lcLoaded THEN loadCalls ELSE loadCalls + 1
    /\ loadRets' = IF lcLoaded THEN loadRets ELSE loadRets \cup {loadCalls + 1}
    /\ lcLoaded' = TRUE
    /\ ok' = [ok EXCEPT ![p] = TRUE]
    /\ pc' = [pc EXCEPT ![p] = "i_unlock"]
    /\ UNCHANGED <<calls, outcome, key, val, lcLoadFunc, lcMu, loadPanics, lcRet,
                   lcGets, lcSeen>>
    /\ UNCHANGED notLazy

\* return lc.loaded, the read of the flag.
IsLoadedRead(p) ==
    /\ pc[p] = "i_read"
    /\ ok' = [ok EXCEPT ![p] = lcLoaded]
    /\ pc' = [pc EXCEPT ![p] = "i_unlock"]
    /\ UNCHANGED <<calls, outcome, key, val, lazyVars>>
    /\ UNCHANGED notLazy

\* The deferred lc.mu.Unlock() runs and IsLoaded returns.
IsLoadedUnlock(p) ==
    /\ pc[p] = "i_unlock"
    /\ lcMu' = Unlocked(lcMu)
    /\ pc' = [pc EXCEPT ![p] = "idle"]
    /\ outcome' = [outcome EXCEPT ![p] = "ret"]
    /\ UNCHANGED <<calls, key, val, ok, lcConfig, lcLoaded, lcLoadFunc,
                   loadCalls, loadPanics, loadRets, lcRet, lcGets, lcSeen>>
    /\ UNCHANGED notLazy

IsLoaded(p) ==
    \/ IsLoadedCall(p)
    \/ IsLoadedLock(p)
    \/ IsLoadedRead(p)
    \/ IsLoadedUnlock(p)

\* ----------------------------------------------------------- ImmutableMap
MaxGets == 2       \* m.Get calls, in total
MaxSets == 2       \* m.Set calls, in total

\* val, ok := m[k]: the zero value and false for an absent key.
Lookup(m, k) == IF k \in DOMAIN m THEN <<m[k], TRUE>> ELSE <<0, FALSE>>
Last(s) == s[Len(s)]

\* NewImmutableMap(): data is a new empty map, the first of the heap.
NewImmutableMap == [heap |-> <<EmptyMap>>, data |-> 1]

InitMap ==
    /\ heap = NewImmutableMap.heap
    /\ mapData = NewImmutableMap.data
    /\ mapMu = UnlockedMu
    /\ newData = [p \in Procs |-> 0]
    /\ snapshots = <<EmptyMap>>
    /\ pubIds = {NewImmutableMap.data}
    /\ since = [p \in Procs |-> 1]
    /\ lastSet = [k \in Keys |-> 0]
    /\ mapOps = [gets |-> 0, sets |-> 0]

\* A goroutine calls m.Get(k).
MapGetCall(p, k) ==
    /\ pc[p] = "idle"
    /\ mapOps.gets < MaxGets
    /\ pc' = [pc EXCEPT ![p] = "g_rlock"]
    /\ mapOps' = [mapOps EXCEPT !.gets = @ + 1]
    /\ outcome' = [outcome EXCEPT ![p] = "none"]
    /\ key' = [key EXCEPT ![p] = k]
    /\ since' = [since EXCEPT ![p] = Len(snapshots)]
    /\ UNCHANGED <<calls, val, ok, heap, mapData, mapMu, newData, snapshots, pubIds, lastSet>>
    /\ UNCHANGED notMap

\* m.mu.RLock(); defer m.mu.RUnlock()
MapGetRLock(p) ==
    /\ pc[p] = "g_rlock"
    /\ CanRLock(mapMu)
    /\ mapMu' = RLocked(mapMu, p)
    /\ pc' = [pc EXCEPT ![p] = "g_read"]
    /\ UNCHANGED <<calls, outcome, key, val, ok, heap, mapData, newData, snapshots,
                   pubIds, since, lastSet, mapOps>>
    /\ UNCHANGED notMap

\* A lookup that inserts the zero value for a missing key.
MapGetReadInsert(p) ==
    /\ pc[p] = "g_read"
    /\ val' = [val EXCEPT ![p] = Lookup(heap[mapData], key[p])[1]]
    /\ ok' = [ok EXCEPT ![p] = Lookup(heap[mapData], key[p])[2]]
    /\ heap' = [heap EXCEPT ![mapData] = MapAssign(@, key[p], Lookup(@, key[p])[1])]
    /\ pc' = [pc EXCEPT ![p] = "g_runlock"]
    /\ UNCHANGED <<calls, outcome, key, mapData, mapMu, newData, snapshots, pubIds,
                   since, lastSet, mapOps>>
    /\ UNCHANGED notMap

\* val, ok := m.data[key]
MapGetRead(p) ==
    /\ pc[p] = "g_read"
    /\ val' = [val EXCEPT ![p] = Lookup(heap[mapData], key[p])[1]]
    /\ ok' = [ok EXCEPT ![p] = Lookup(heap[mapData], key[p])[2]]
    /\ pc' = [pc EXCEPT ![p] = "g_runlock"]
    /\ UNCHANGED <<calls, outcome, key, mapVars>>
    /\ UNCHANGED notMap

\* return val, ok: the deferred m.mu.RUnlock() runs and Get returns; its
\* locals are gone.
MapGetRUnlock(p) ==
    /\ pc[p] = "g_runlock"
    /\ mapMu' = RUnlocked(mapMu, p)
    /\ pc' = [pc EXCEPT ![p] = "idle"]
    /\ outcome' = [outcome EXCEPT ![p] = "ret"]
    /\ key' = [key EXCEPT ![p] = "a"]
    /\ val' = [val EXCEPT ![p] = 0]
    /\ ok' = [ok EXCEPT ![p] = FALSE]
    /\ since' = [since EXCEPT ![p] = 1]
    /\ UNCHANGED <<calls, heap, mapData, newData, snapshots, pubIds, lastSet, mapOps>>
    /\ UNCHANGED notMap

MapGet(p) ==
    \/ \E k \in Keys : MapGetCall(p, k)
    \/ MapGetRLock(p)
    \/ MapGetRead(p)
    \/ MapGetRUnlock(p)

\* A goroutine calls m.Set(k, v); the n-th Set call stores the value n.
MapSetCall(p, k) ==
    /\ pc[p] = "idle"
    /\ mapOps.sets < MaxSets
    /\ pc' = [pc EXCEPT ![p] = "s_lock"]
    /\ mapOps' = [mapOps EXCEPT !.sets = @ + 1]
    /\ outcome' = [outcome EXCEPT ![p] = "none"]
    /\ key' = [key EXCEPT ![p] = k]
    /\ val' = [val EXCEPT ![p] = mapOps.sets + 1]
    /\ UNCHANGED <<calls, ok, heap, mapData, mapMu, newData, snapshots, pubIds, since, lastSet>>
    /\ UNCHANGED notMap

\* A Set that builds and publishes without taking the write lock.
MapSetNoLock(p) ==
    /\ pc[p] = "s_lock"
    /\ pc' = [pc EXCEPT ![p] = "s_make"]
    /\ UNCHANGED <<calls, outcome, key, val, ok, mapVars>>
    /\ UNCHANGED notMap

\* A Set that takes the lock for reading, as Get does.
MapSetLockShared(p) ==
    /\ pc[p] = "s_lock"
    /\ CanRLock(mapMu)
    /\ mapMu' = RLocked(mapMu, p)
    /\ pc' = [pc EXCEPT ![p] = "s_make"]
    /\ UNCHANGED <<calls, outcome, key, val, ok, heap, mapData, newData, snapshots,
                   pubIds, since, lastSet, mapOps>>
    /\ UNCHANGED notMap

\* m.mu.Lock(); defer m.mu.Unlock()
MapSetLock(p) ==
    /\ pc[p] = "s_lock"
    /\ CanLock(mapMu)
    /\ mapMu' = Locked(mapMu, p)
    /\ pc' = [pc EXCEPT ![p] = "s_make"]
    /\ UNCHANGED <<calls, outcome, key, val, ok, heap, mapData, newData, snapshots,
                   pubIds, since, lastSet, mapOps>>
    /\ UNCHANGED notMap

\* newData := m.data, the map itself instead of a new one.
MapSetMakeAlias(p) ==
    /\ pc[p] = "s_make"
    /\ newData' = [newData EXCEPT ![p] = mapData]
    /\ pc' = [pc EXCEPT ![p] = "s_copy"]
    /\ UNCHANGED <<calls, outcome, key, val, ok, heap, mapData, mapMu, snapshots,
                   pubIds, since, lastSet, mapOps>>
    /\ UNCHANGED notMap

\* newData := make(map[string]int, len(m.data)+1): a new, empty map.
MapSetMake(p) ==
    /\ pc[p] = "s_make"
    /\ heap' = Append(heap, EmptyMap)
    /\ newData' = [newData EXCEPT ![p] = Len(heap) + 1]
    /\ pc' = [pc EXCEPT ![p] = "s_copy"]
    /\ UNCHANGED <<calls, outcome, key, val, ok, mapData, mapMu, snapshots,
                   pubIds, since, lastSet, mapOps>>
    /\ UNCHANGED notMap

\* A Set that copies nothing from the current map.
MapSetCopyNothing(p) ==
    /\ pc[p] = "s_copy"
    /\ pc' = [pc EXCEPT ![p] = "s_assign"]
    /\ UNCHANGED <<calls, outcome, key, val, ok, mapVars>>
    /\ UNCHANGED notMap

\* maps.Copy(newData, m.data): one entry a step, in any order, until every
\* entry of m.data is in newData.
MapSetCopy(p) ==
    /\ pc[p] = "s_copy"
    /\ LET src == heap[mapData]
           todo == {k \in DOMAIN src : Lookup(heap[newData[p]], k) # <<src[k], TRUE>>}
       IN  IF todo = {}
              THEN /\ pc' = [pc EXCEPT ![p] = "s_assign"]
                   /\ UNCHANGED heap
              ELSE /\ \E k \in todo :
                         heap' = [heap EXCEPT ![newData[p]] = MapAssign(@, k, src[k])]
                   /\ UNCHANGED pc
    /\ UNCHANGED <<calls, outcome, key, val, ok, mapData, mapMu, newData, snapshots,
                   pubIds, since, lastSet, mapOps>>
    /\ UNCHANGED notMap

\* A Set that keeps the value of a key that is already present.
MapSetAssignIfAbsent(p) ==
    /\ pc[p] = "s_assign"
    /\ heap' = [heap EXCEPT ![newData[p]] =
                    IF key[p] \in DOMAIN @ THEN @ ELSE MapAssign(@, key[p], val[p])]
    /\ pc' = [pc EXCEPT ![p] = "s_publish"]
    /\ UNCHANGED <<calls, outcome, key, val, ok, mapData, mapMu, newData, snapshots,
                   pubIds, since, lastSet, mapOps>>
    /\ UNCHANGED notMap

\* newData[key] = value
MapSetAssign(p) ==
    /\ pc[p] = "s_assign"
    /\ heap' = [heap EXCEPT ![newData[p]] = MapAssign(@, key[p], val[p])]
    /\ pc' = [pc EXCEPT ![p] = "s_publish"]
    /\ UNCHANGED <<calls, outcome, key, val, ok, mapData, mapMu, newData, snapshots,
                   pubIds, since, lastSet, mapOps>>
    /\ UNCHANGED notMap

\* m.data = newData.  The snapshot this Set was to publish is the current one
\* with key set to value.
MapSetPublish(p) ==
    /\ pc[p] = "s_publish"
    /\ mapData' = newData[p]
    /\ pubIds' = pubIds \cup {newData[p]}
    /\ snapshots' = Append(snapshots, MapAssign(Last(snapshots), key[p], val[p]))
    /\ pc' = [pc EXCEPT ![p] = "s_unlock"]
    /\ UNCHANGED <<calls, outcome, key, val, ok, heap, mapMu, newData, since, lastSet, mapOps>>
    /\ UNCHANGED notMap

\* The deferred m.mu.Unlock() runs and Set returns; its locals are gone.
MapSetUnlock(p) ==
    /\ pc[p] = "s_unlock"
    /\ mapMu' = Unlocked(mapMu)
    /\ newData' = [newData EXCEPT ![p] = 0]
    /\ lastSet' = [lastSet EXCEPT ![key[p]] = val[p]]
    /\ pc' = [pc EXCEPT ![p] = "idle"]
    /\ outcome' = [outcome EXCEPT ![p] = "ret"]
    /\ key' = [key EXCEPT ![p] = "a"]
    /\ val' = [val EXCEPT ![p] = 0]
    /\ UNCHANGED <<calls, ok, heap, mapData, snapshots, pubIds, since, mapOps>>
    /\ UNCHANGED notMap

MapSet(p) ==
    \/ \E k \in Keys : MapSetCall(p, k)
    \/ MapSetLock(p)
    \/ MapSetMake(p)
    \/ MapSetCopy(p)
    \/ MapSetAssign(p)
    \/ MapSetPublish(p)
    \/ MapSetUnlock(p)

\* -------------------------------------------------------- ServiceRegistry
\* The names GetService is called with: the registered ones and one more.
Names == {"database", "cache", "queue", "metrics"}
\* The map the initialization builds.
BuiltServices ==
    [n \in {"database", "cache", "queue"} |->
        IF n = "database" THEN "Database" ELSE IF n = "cache" THEN "Cache" ELSE "Queue"]
\* sr.services[name]: a nil map and a missing name give nil.
ServiceAt(m, n) == IF n \in DOMAIN m THEN m[n] ELSE "nil"

\* registry := &ServiceRegistry{}
InitReg ==
    /\ name = [p \in Procs |-> "database"]
    /\ svc = [p \in Procs |-> "nil"]
    /\ caller = [p \in Procs |-> "none"]
    /\ srServices = [x \in {} |-> "nil"]
    /\ srInitDone = FALSE
    /\ onceDone = FALSE
    /\ onceMu = UnlockedMu
    /\ initRuns = 0

\* sr.Initialize() called directly
RegInitializeCall(p) ==
    /\ pc[p] = "idle"
    /\ calls[p] < MaxCalls
    /\ calls' = [calls EXCEPT ![p] = @ + 1]
    /\ caller' = [caller EXCEPT ![p] = "Initialize"]
    /\ outcome' = [outcome EXCEPT ![p] = "none"]
    /\ pc' = [pc EXCEPT ![p] = "o_fast"]
    /\ UNCHANGED <<key, val, ok, name, svc, srServices, srInitDone, onceDone, onceMu, initRuns>>
    /\ UNCHANGED notReg

\* sr.GetService(n), which starts with sr.Initialize()
RegGetServiceCall(p, n) ==
    /\ pc[p] = "idle"
    /\ calls[p] < MaxCalls
    /\ calls' = [calls EXCEPT ![p] = @ + 1]
    /\ caller' = [caller EXCEPT ![p] = "GetService"]
    /\ name' = [name EXCEPT ![p] = n]
    /\ svc' = [svc EXCEPT ![p] = "nil"]
    /\ outcome' = [outcome EXCEPT ![p] = "none"]
    /\ pc' = [pc EXCEPT ![p] = "o_fast"]
    /\ UNCHANGED <<key, val, ok, srServices, srInitDone, onceDone, onceMu, initRuns>>
    /\ UNCHANGED notReg

\* once.Do: the done flag is read without the mutex; set, Do returns.
OnceFast(p) ==
    /\ pc[p] = "o_fast"
    /\ pc' = [pc EXCEPT ![p] = IF onceDone THEN "o_ret" ELSE "o_lock"]
    /\ UNCHANGED <<calls, outcome, key, val, ok, regVars>>
    /\ UNCHANGED notReg

\* once.Do, slow path: the mutex of the Once is acquired.
OnceLock(p) ==
    /\ pc[p] = "o_lock"
    /\ CanLock(onceMu)
    /\ onceMu' = Locked(onceMu, p)
    /\ pc' = [pc EXCEPT ![p] = "o_check"]
    /\ UNCHANGED <<calls, outcome, key, val, ok, name, svc, caller, srServices, srInitDone,
                   onceDone, initRuns>>
    /\ UNCHANGED notReg

\* A slow path that runs the function without reading the done flag again.
OnceCheckNoRecheck(p) ==
    /\ pc[p] = "o_check"
    /\ initRuns' = initRuns + 1
    /\ pc' = [pc EXCEPT ![p] = "sr_services"]
    /\ UNCHANGED <<calls, outcome, key, val, ok, name, svc, caller, srServices, srInitDone,
                   onceDone, onceMu>>
    /\ UNCHANGED notReg

\* A slow path that sets done before the function has run.
OnceCheckStoresEarly(p) ==
    /\ pc[p] = "o_check"
    /\ IF onceDone
          THEN /\ pc' = [pc EXCEPT ![p] = "o_unlock"]
               /\ UNCHANGED <<initRuns, onceDone>>
          ELSE /\ pc' = [pc EXCEPT ![p] = "sr_services"]
               /\ initRuns' = initRuns + 1
               /\ onceDone' = TRUE
    /\ UNCHANGED <<calls, outcome, key, val, ok, name, svc, caller, srServices, srInitDone,
                   onceMu>>
    /\ UNCHANGED notReg

\* once.Do, slow path: done is read again under the mutex; the function runs
\* only when it is still unset.
OnceCheck(p) ==
    /\ pc[p] = "o_check"
    /\ IF onceDone
          THEN /\ pc' = [pc EXCEPT ![p] = "o_unlock"]
               /\ UNCHANGED initRuns
          ELSE /\ pc' = [pc EXCEPT ![p] = "sr_services"]
               /\ initRuns' = initRuns + 1
    /\ UNCHANGED <<calls, outcome, key, val, ok, name, svc, caller, srServices, srInitDone,
                   onceDone, onceMu>>
    /\ UNCHANGED notReg

\* sr.services = map[string]*Service{...}
InitServices(p) ==
    /\ pc[p] = "sr_services"
    /\ srServices' = BuiltServices
    /\ pc' = [pc EXCEPT ![p] = "sr_initdone"]
    /\ UNCHANGED <<calls, outcome, key, val, ok, name, svc, caller, srInitDone, onceDone,
                   onceMu, initRuns>>
    /\ UNCHANGED notReg

\* sr.initDone = true
InitSetDone(p) ==
    /\ pc[p] = "sr_initdone"
    /\ srInitDone' = TRUE
    /\ pc' = [pc EXCEPT ![p] = "o_store"]
    /\ UNCHANGED <<calls, outcome, key, val, ok, name, svc, caller, srServices, onceDone,
                   onceMu, initRuns>>
    /\ UNCHANGED notReg

\* once.Do: the done flag is set after the function has returned.
OnceStore(p) ==
    /\ pc[p] = "o_store"
    /\ onceDone' = TRUE
    /\ pc' = [pc EXCEPT ![p] = "o_unlock"]
    /\ UNCHANGED <<calls, outcome, key, val, ok, name, svc, caller, srServices, srInitDone,
                   onceMu, initRuns>>
    /\ UNCHANGED notReg

\* once.Do: the mutex of the Once is released and Do returns.
OnceUnlock(p) ==
    /\ pc[p] = "o_unlock"
    /\ onceMu' = Unlocked(onceMu)
    /\ pc' = [pc EXCEPT ![p] = "o_ret"]
    /\ UNCHANGED <<calls, outcome, key, val, ok, name, svc, caller, srServices, srInitDone,
                   onceDone, initRuns>>
    /\ UNCHANGED notReg

\* Initialize returns, to its caller or into GetService.
InitializeReturn(p) ==
    /\ pc[p] = "o_ret"
    /\ IF caller[p] = "GetService"
          THEN /\ pc' = [pc EXCEPT ![p] = "sr_lookup"]
               /\ UNCHANGED outcome
          ELSE /\ pc' = [pc EXCEPT ![p] = "idle"]
               /\ outcome' = [outcome EXCEPT ![p] = "ret"]
    /\ UNCHANGED <<calls, key, val, ok, regVars>>
    /\ UNCHANGED notReg

\* return sr.services[name]
GetServiceReturn(p) ==
    /\ pc[p] = "sr_lookup"
    /\ svc' = [svc EXCEPT ![p] = ServiceAt(srServices, name[p])]
    /\ pc' = [pc EXCEPT ![p] = "idle"]
    /\ outcome' = [outcome EXCEPT ![p] = "ret"]
    /\ UNCHANGED <<calls, key, val, ok, name, caller, srServices, srInitDone, onceDone,
                   onceMu, initRuns>>
    /\ UNCHANGED notReg

Initialize(p) ==
    \/ OnceFast(p)
    \/ OnceLock(p)
    \/ OnceCheck(p)
    \/ InitServices(p)
    \/ InitSetDone(p)
    \/ OnceStore(p)
    \/ OnceUnlock(p)
    \/ InitializeReturn(p)

GetService(p) ==
    \/ \E n \in Names : RegGetServiceCall(p, n)
    \/ GetServiceReturn(p)

\* --------------------------------------------------------- ImmutableSlice
MaxAppends == 2    \* s.Append calls, in total
MaxCopies == 2     \* s.Get calls, in total
Scribble == 9      \* the value a caller writes into a slice it got from Get
\* Backing arrays: one for s.data, one for every slice a goroutine holds, and
\* one for the allocation under way.  An array nothing refers to is collected
\* and its place reused.
SliceRefs == 1..(NumProcs + 2)
SliceRoots(d, held) == {d} \cup ({held[p] : p \in Procs} \ {0})
FreeRef(roots) == CHOOSE i \in SliceRefs : i \notin roots /\ \A j \in SliceRefs : j < i => j \in roots
Collect(arrs, roots) == [i \in SliceRefs |-> IF i \in roots THEN arrs[i] ELSE <<>>]

\* NewImmutableSlice(): data is make([]int, 0).
InitSlice ==
    /\ slArrs = [i \in SliceRefs |-> <<>>]
    /\ slData = 1
    /\ slHeld = [p \in Procs |-> 0]
    /\ slLen = 0
    /\ slAppended = <<>>
    /\ slGets = 0
    /\ slDirtyAt = 0

\* s.Append(v), all of it under s.mu.Lock(): a new array one longer, the old
\* elements copied, v in the last place, and s.data set to the new array.
\* The n-th Append appends n.
SliceAppend(p) ==
    /\ Len(slAppended) < MaxAppends
    /\ LET new == FreeRef(SliceRoots(slData, slHeld))
           old == slArrs[slData]
           v == Len(slAppended) + 1
           newArr == [i \in 1..(Len(old) + 1) |-> IF i <= Len(old) THEN old[i] ELSE v]
       IN  /\ slArrs' = Collect([slArrs EXCEPT ![new] = newArr], SliceRoots(new, slHeld))
           /\ slData' = new
    /\ slAppended' = Append(slAppended, Len(slAppended) + 1)
    /\ UNCHANGED <<slHeld, slLen, slGets, slDirtyAt>>
    /\ UNCHANGED <<procVars, notSlice>>

\* A Get that returns s.data itself.
SliceGetAlias(p) ==
    /\ slGets < MaxCopies
    /\ slGets' = slGets + 1
    /\ slHeld' = [slHeld EXCEPT ![p] = slData]
    /\ slArrs' = Collect(slArrs, SliceRoots(slData, slHeld'))
    /\ UNCHANGED <<slData, slLen, slAppended, slDirtyAt>>
    /\ UNCHANGED <<procVars, notSlice>>

\* data := s.Get(), all of it under s.mu.RLock(): a new array of the same
\* length with the elements copied, which the caller gets.
SliceGet(p) ==
    /\ slGets < MaxCopies
    /\ slGets' = slGets + 1
    /\ LET new == FreeRef(SliceRoots(slData, slHeld))
           result == [i \in 1..Len(slArrs[slData]) |-> slArrs[slData][i]]
       IN  /\ slHeld' = [slHeld EXCEPT ![p] = new]
           /\ slArrs' = Collect([slArrs EXCEPT ![new] = result], SliceRoots(slData, slHeld'))
    /\ UNCHANGED <<slData, slLen, slAppended, slDirtyAt>>
    /\ UNCHANGED <<procVars, notSlice>>

\* n := s.Len(), under s.mu.RLock()
SliceLen(p) ==
    /\ slLen' = Len(slArrs[slData])
    /\ UNCHANGED <<slArrs, slData, slHeld, slAppended, slGets, slDirtyAt>>
    /\ UNCHANGED <<procVars, notSlice>>

\* data[i] = Scribble: the caller writes into the slice it got from Get.
SliceCallerWrite(p, i) ==
    /\ slHeld[p] # 0
    /\ i \in 1..Len(slArrs[slHeld[p]])
    /\ slArrs' = [slArrs EXCEPT ![slHeld[p]][i] = Scribble]
    /\ slDirtyAt' = IF slDirtyAt = 0 THEN slGets ELSE slDirtyAt
    /\ UNCHANGED <<slData, slHeld, slLen, slAppended, slGets>>
    /\ UNCHANGED <<procVars, notSlice>>

\* -------------------------------------------------------- BatchHTTPClient
MaxSends == 4      \* c.Send calls, in total
MaxBatch == 2      \* the largest batchSize a client is made with
BatchStates == {"b_lock", "b_append", "b_check", "b_flush", "b_clear"}
Reqs == 1..MaxSends
Range(s) == {s[i] : i \in 1..Len(s)}

\* NewBatchHTTPClient(batchSize, flushDelay): any batchSize is accepted;
\* pending is nil.
InitBatchWith(sizes) ==
    /\ bBatchSize \in sizes
    /\ bPending = <<>>
    /\ bMu = UnlockedMu
    /\ bReq = [p \in Procs |-> 0]
    /\ bRequests = [p \in Procs |-> <<>>]
    /\ bSent = 0
    /\ bFlushCount = [r \in Reqs |-> 0]
    /\ bFlushers = {}
    /\ bCallers = {}

\* A goroutine calls c.Send(req); the n-th Send sends request n.
BatchSendCall(p) ==
    /\ pc[p] = "idle"
    /\ bSent < MaxSends
    /\ bSent' = bSent + 1
    /\ bReq' = [bReq EXCEPT ![p] = bSent + 1]
    /\ bCallers' = bCallers \cup {p}
    /\ outcome' = [outcome EXCEPT ![p] = "none"]
    /\ pc' = [pc EXCEPT ![p] = "b_lock"]
    /\ UNCHANGED <<calls, key, val, ok, bBatchSize, bPending, bMu, bRequests, bFlushCount,
                   bFlushers>>
    /\ UNCHANGED notBatch

\* c.mu.Lock()
BatchLock(p) ==
    /\ pc[p] = "b_lock"
    /\ CanLock(bMu)
    /\ bMu' = Locked(bMu, p)
    /\ pc' = [pc EXCEPT ![p] = "b_append"]
    /\ UNCHANGED <<calls, outcome, key, val, ok, bBatchSize, bPending, bReq, bRequests, bSent,
                   bFlushCount, bFlushers, bCallers>>
    /\ UNCHANGED notBatch

\* c.pending = append(c.pending, req)
BatchAppend(p) ==
    /\ pc[p] = "b_append"
    /\ bPending' = Append(bPending, bReq[p])
    /\ pc' = [pc EXCEPT ![p] = "b_check"]
    /\ UNCHANGED <<calls, outcome, key, val, ok, bBatchSize, bMu, bReq, bRequests, bSent,
                   bFlushCount, bFlushers, bCallers>>
    /\ UNCHANGED notBatch

\* A Send that flushes only when pending is longer than batchSize.
BatchCheckGreater(p) ==
    /\ pc[p] = "b_check"
    /\ bMu' = Unlocked(bMu)
    /\ IF Len(bPending) > bBatchSize
          THEN /\ pc' = [pc EXCEPT ![p] = "b_flush"]
               /\ bFlushers' = bFlushers \cup {bReq[p]}
               /\ UNCHANGED outcome
          ELSE /\ pc' = [pc EXCEPT ![p] = "idle"]
               /\ outcome' = [outcome EXCEPT ![p] = "ret"]
               /\ UNCHANGED bFlushers
    /\ UNCHANGED <<calls, key, val, ok, bBatchSize, bPending, bReq, bRequests, bSent,
                   bFlushCount, bCallers>>
    /\ UNCHANGED notBatch

\* if len(c.pending) >= c.batchSize { c.mu.Unlock(); return c.flush() }
\* c.mu.Unlock(); return HTTPResponse{StatusCode: 200}
BatchCheck(p) ==
    /\ pc[p] = "b_check"
    /\ bMu' = Unlocked(bMu)
    /\ IF Len(bPending) >= bBatchSize
          THEN /\ pc' = [pc EXCEPT ![p] = "b_flush"]
               /\ bFlushers' = bFlushers \cup {bReq[p]}
               /\ UNCHANGED outcome
          ELSE /\ pc' = [pc EXCEPT ![p] = "idle"]
               /\ outcome' = [outcome EXCEPT ![p] = "ret"]
               /\ UNCHANGED bFlushers
    /\ UNCHANGED <<calls, key, val, ok, bBatchSize, bPending, bReq, bRequests, bSent,
                   bFlushCount, bCallers>>
    /\ UNCHANGED notBatch

\* flush: requests := c.pending, after the mutex has been released.
BatchFlushRead(p) ==
    /\ pc[p] = "b_flush"
    /\ bRequests' = [bRequests EXCEPT ![p] = bPending]
    /\ pc' = [pc EXCEPT ![p] = "b_clear"]
    /\ UNCHANGED <<calls, outcome, key, val, ok, bBatchSize, bPending, bMu, bReq, bSent,
                   bFlushCount, bFlushers, bCallers>>
    /\ UNCHANGED notBatch

\* flush: c.pending = nil; the batch in requests is processed and Send returns.
BatchFlushClear(p) ==
    /\ pc[p] = "b_clear"
    /\ bPending' = <<>>
    /\ bFlushCount' = [r \in Reqs |->
                          IF r \in Range(bRequests[p]) THEN bFlushCount[r] + 1 ELSE bFlushCount[r]]
    /\ bRequests' = [bRequests EXCEPT ![p] = <<>>]
    /\ pc' = [pc EXCEPT ![p] = "idle"]
    /\ outcome' = [outcome EXCEPT ![p] = "ret"]
    /\ UNCHANGED <<calls, key, val, ok, bBatchSize, bMu, bReq, bSent, bFlushers, bCallers>>
    /\ UNCHANGED notBatch

BatchSend(p) ==
    \/ BatchSendCall(p)
    \/ BatchLock(p)
    \/ BatchAppend(p)
    \/ BatchCheck(p)
    \/ BatchFlushRead(p)
    \/ BatchFlushClear(p)

\* ------------------------------------------------------- Buffer and pool
DataLen == 4       \* len(b.Data) of the buffers the pool makes
MaxWrite == 3      \* the longest data a Write is called with
MaxBufs == 2       \* buffers the pool makes, in total
Bufs == 1..MaxBufs

\* The pool is empty and no buffer has been made.
InitPool ==
    /\ bufLength = [i \in Bufs |-> 0]
    /\ bufAlloc = 0
    /\ poolItems = {}
    /\ bufHeld = [p \in Procs |-> 0]
    /\ bufFromPool = [p \in Procs |-> FALSE]
    /\ bufWritten = {}

\* buf := GetBuffer(): pool.Get() hands out a buffer that was put back, or,
\* with the pool empty or passed over, the buffer New makes:
\* &Buffer{Data: make([]byte, 1024)}, whose Length is 0.
PoolGetBuffer(p) ==
    /\ bufHeld[p] = 0
    /\ \/ \E i \in poolItems :
             /\ poolItems' = poolItems \ {i}
             /\ bufHeld' = [bufHeld EXCEPT ![p] = i]
             /\ bufFromPool' = [bufFromPool EXCEPT ![p] = TRUE]
             /\ UNCHANGED <<bufLength, bufAlloc>>
       \/ /\ bufAlloc < MaxBufs
          /\ bufAlloc' = bufAlloc + 1
          /\ bufLength' = [bufLength EXCEPT ![bufAlloc + 1] = 0]
          /\ bufHeld' = [bufHeld EXCEPT ![p] = bufAlloc + 1]
          /\ bufFromPool' = [bufFromPool EXCEPT ![p] = FALSE]
          /\ UNCHANGED poolItems
    /\ outcome' = [outcome EXCEPT ![p] = "ret"]
    /\ UNCHANGED <<pc, calls, key, val, ok, bufWritten>>
    /\ UNCHANGED notPool

\* buf.Write(data) with len(data) = n: b.Data[b.Length:] panics when Length is
\* beyond len(Data); otherwise copy stores what fits and Length grows by n.
BufferWrite(p, n) ==
    /\ bufHeld[p] # 0
    /\ IF bufLength[bufHeld[p]] > DataLen
          THEN /\ outcome' = [outcome EXCEPT ![p] = "panic"]
               /\ UNCHANGED <<bufLength, bufWritten>>
          ELSE /\ bufLength' = [bufLength EXCEPT ![bufHeld[p]] = @ + n]
               /\ bufWritten' = bufWritten \cup {bufHeld[p]}
               /\ outcome' = [outcome EXCEPT ![p] = "ret"]
    /\ UNCHANGED <<pc, calls, key, val, ok, bufAlloc, poolItems, bufHeld, bufFromPool>>
    /\ UNCHANGED notPool

\* buf.Reset()
BufferReset(p) ==
    /\ bufHeld[p] # 0
    /\ bufLength' = [bufLength EXCEPT ![bufHeld[p]] = 0]
    /\ outcome' = [outcome EXCEPT ![p] = "ret"]
    /\ UNCHANGED <<pc, calls, key, val, ok, bufAlloc, poolItems, bufHeld, bufFromPool, bufWritten>>
    /\ UNCHANGED notPool

\* A PutBuffer that does not reset.
PoolPutBufferNoReset(p) ==
    /\ bufHeld[p] # 0
    /\ poolItems' = poolItems \cup {bufHeld[p]}
    /\ bufHeld' = [bufHeld EXCEPT ![p] = 0]
    /\ bufFromPool' = [bufFromPool EXCEPT ![p] = FALSE]
    /\ outcome' = [outcome EXCEPT ![p] = "ret"]
    /\ UNCHANGED <<pc, calls, key, val, ok, bufLength, bufAlloc, bufWritten>>
    /\ UNCHANGED notPool

\* PutBuffer(buf): b.Reset(); pool.Put(b).  The caller keeps no buffer.
PoolPutBuffer(p) ==
    /\ bufHeld[p] # 0
    /\ bufLength' = [bufLength EXCEPT ![bufHeld[p]] = 0]
    /\ poolItems' = poolItems \cup {bufHeld[p]}
    /\ bufHeld' = [bufHeld EXCEPT ![p] = 0]
    /\ bufFromPool' = [bufFromPool EXCEPT ![p] = FALSE]
    /\ outcome' = [outcome EXCEPT ![p] = "ret"]
    /\ UNCHANGED <<pc, calls, key, val, ok, bufAlloc, bufWritten>>
    /\ UNCHANGED notPool

\* ------------------------------------------- AddByValue and AddByPointer
MaxField == 2      \* the largest value of a field of an argument
\* The fields of LargeStruct the two functions read; the sums stay far from
\* the ends of int64.
LargeStructs(vals) == [Field1 : vals, Field2 : vals]
\* func AddByValue(a, b LargeStruct) int64
AddByValue(a, b) == a.Field1 + b.Field2 + b.Field2
\* func AddByPointer(a, b *LargeStruct) int64, on pointers to a and b
AddByPointer(a, b) == a.Field1 + b.Field1 + a.Field2 + b.Field2

\* The two arguments, and no call made yet.
InitAddWith(vals) ==
    /\ addA \in LargeStructs(vals)
    /\ addB \in LargeStructs(vals)
    /\ addDone = {}
    /\ addValueRet = 0
    /\ addPointerRet = 0

\* r := AddByValue(a, b)
CallAddByValue ==
    /\ "value" \notin addDone
    /\ addValueRet' = AddByValue(addA, addB)
    /\ addDone' = addDone \cup {"value"}
    /\ UNCHANGED <<addA, addB, addPointerRet>>
    /\ UNCHANGED <<procVars, notAdd>>

\* r := AddByPointer(&a, &b)
CallAddByPointer ==
    /\ "pointer" \notin addDone
    /\ addPointerRet' = AddByPointer(addA, addB)
    /\ addDone' = addDone \cup {"pointer"}
    /\ UNCHANGED <<addA, addB, addValueRet>>
    /\ UNCHANGED <<procVars, notAdd>>

\* ---------------------------------------------------------- specifications
\* Each component after construction; the constructors accept a nil function.
InitCache == InitProcs /\ InitCacheWith({"fn", "nil"}) /\ InitLazyWith({"fn"}) /\ InitMap /\ InitReg /\ InitSlice /\ InitBatchWith({1}) /\ InitPool /\ InitAddWith({0})
NextCache == \E p \in Procs : CacheGet(p)
SpecCache == InitCache /\ [][NextCache]_vars

InitLazy == InitProcs /\ InitCacheWith({"fn"}) /\ InitLazyWith({"fn", "nil"}) /\ InitMap /\ InitReg /\ InitSlice /\ InitBatchWith({1}) /\ InitPool /\ InitAddWith({0})
NextLazy == \E p \in Procs : LazyGet(p) \/ IsLoaded(p)
SpecLazy == InitLazy /\ [][NextLazy]_vars

InitMapOnly == InitProcs /\ InitCacheWith({"fn"}) /\ InitLazyWith({"fn"}) /\ InitMap /\ InitReg /\ InitSlice /\ InitBatchWith({1}) /\ InitPool /\ InitAddWith({0})
NextMap == \E p \in Procs : MapGet(p) \/ MapSet(p)
SpecMap == InitMapOnly /\ [][NextMap]_vars

InitRegistry == InitProcs /\ InitCacheWith({"fn"}) /\ InitLazyWith({"fn"}) /\ InitMap /\ InitReg /\ InitSlice /\ InitBatchWith({1}) /\ InitPool /\ InitAddWith({0})
NextRegistry == \E p \in Procs : RegInitializeCall(p) \/ Initialize(p) \/ GetService(p)
SpecRegistry == InitRegistry /\ [][NextRegistry]_vars

\* A Cache or an ImmutableMap shared by the goroutines.  The two components
\* have no state in common, so a run calls one of them: Get of the Cache while
\* the map has not been called, Get and Set of the map while the Cache has not.
CacheStates ==
    {"c_rlock", "c_fast", "c_lock", "c_check", "c_load", "c_loading", "c_store",
     "c_unlock", "c_panic"}
CacheUntouched ==
    /\ \A p \in Procs : pc[p] \notin CacheStates
    /\ \A k \in Keys : loaderCalls[k] = 0 /\ loaderPanics[k] = 0
MapUntouched == mapOps.gets = 0 /\ mapOps.sets = 0
InitShared == InitProcs /\ InitCacheWith({"fn"}) /\ InitLazyWith({"fn"}) /\ InitMap /\ InitReg /\ InitSlice /\ InitBatchWith({1}) /\ InitPool /\ InitAddWith({0})
NextShared ==
    \E p \in Procs :
        \/ MapUntouched /\ CacheGet(p)
        \/ CacheUntouched /\ (MapGet(p) \/ MapSet(p))
SpecShared == InitShared /\ [][NextShared]_vars

InitSliceOnly == InitProcs /\ InitCacheWith({"fn"}) /\ InitLazyWith({"fn"}) /\ InitMap /\ InitReg /\ InitSlice /\ InitBatchWith({1}) /\ InitPool /\ InitAddWith({0})
NextSlice ==
    \E p \in Procs :
        \/ SliceAppend(p)
        \/ SliceGet(p)
        \/ SliceLen(p)
        \/ \E i \in 1..MaxAppends : SliceCallerWrite(p, i)
SpecSlice == InitSliceOnly /\ [][NextSlice]_vars

InitBatchOnly == InitProcs /\ InitCacheWith({"fn"}) /\ InitLazyWith({"fn"}) /\ InitMap /\ InitReg /\ InitSlice /\ InitBatchWith(0..MaxBatch) /\ InitPool /\ InitAddWith({0})
NextBatch == \E p \in Procs : BatchSend(p)
SpecBatch == InitBatchOnly /\ [][NextBatch]_vars

InitPoolOnly == InitProcs /\ InitCacheWith({"fn"}) /\ InitLazyWith({"fn"}) /\ InitMap /\ InitReg /\ InitSlice /\ InitBatchWith({1}) /\ InitPool /\ InitAddWith({0})
NextPool ==
    \E p \in Procs :
        \/ PoolGetBuffer(p)
        \/ \E n \in 0..MaxWrite : BufferWrite(p, n)
        \/ BufferReset(p)
        \/ PoolPutBuffer(p)
SpecPool == InitPoolOnly /\ [][NextPool]_vars

InitAddOnly == InitProcs /\ InitCacheWith({"fn"}) /\ InitLazyWith({"fn"}) /\ InitMap /\ InitReg /\ InitSlice /\ InitBatchWith({1}) /\ InitPool /\ InitAddWith(0..MaxField)
NextAdd == CallAddByValue \/ CallAddByPointer
SpecAdd == InitAddOnly /\ [][NextAdd]_vars

\* ================================================================= claims
\* ------------------------------------------------------------------ Cache
\* No Get(k) call has ended, or is about to end, in a panic.
NoCachePanic(k) ==
    /\ loaderPanics[k] = 0
    /\ \A p \in Procs : ~(pc[p] = "c_panic" /\ key[p] = k)

\* C1: for every key k, however the Get(k) calls of the goroutines interleave,
\* the loader returns for k at most once and every Get(k) that returned
\* returned that one result; when no Get(k) panicked the loader was invoked
\* for k at most once, and exactly once as soon as one Get(k) has returned.
C1_LoaderOncePerKey ==
    \A k \in Keys :
        /\ Cardinality(loaderRets[k]) <= 1
        /\ Cardinality(cacheRet[k]) <= 1
        /\ cacheRet[k] \subseteq loaderRets[k]
        /\ NoCachePanic(k) => loaderCalls[k] <= 1
        /\ (NoCachePanic(k) /\ cacheRet[k] # {}) => loaderCalls[k] = 1

\* Two goroutines raced on the same key of a fresh cache: one has returned,
\* the other is about to return, and the loader ran once.
C1_Witness ==
    /\ \A p \in Procs : calls[p] = 1 /\ key[p] = "a"
    /\ pc[1] = "idle" /\ outcome[1] = "ret"
    /\ pc[2] = "c_unlock"
    /\ val[1] = val[2]
    /\ loaderCalls["a"] = 1

\* C7: when the loader panics in Get(k) the panic reaches the caller with no
\* entry for k inserted and the write lock released, and the failure is not
\* cached: a key is present only with a value the loader returned for it, and
\* no Get returns anything else, so a later Get(k) calls the loader again.
C7_PanicLeavesNoEntry ==
    /\ \A p \in Procs :
          /\ pc[p] = "c_panic" => key[p] \notin DOMAIN cacheData
          /\ (pc[p] = "idle" /\ outcome[p] = "panic") =>
                 (cacheMu.writer # p /\ p \notin cacheMu.readers)
          /\ pc[p] \in {"idle", "c_rlock", "c_lock"} => cacheMu.writer # p
    /\ \A k \in Keys :
          /\ k \in DOMAIN cacheData => cacheData[k] \in loaderRets[k]
          /\ cacheRet[k] \subseteq loaderRets[k]
          /\ (loaderPanics[k] > 0 /\ k \in DOMAIN cacheData) => loaderCalls[k] > loaderPanics[k]

\* The loader panicked in a Get("a"), the caller got the panic, and a later
\* Get("a") called the loader again and stored its result.
C7_Witness ==
    /\ cacheLoader = "fn"
    /\ loaderPanics["a"] = 1
    /\ loaderCalls["a"] = 2
    /\ "a" \in DOMAIN cacheData
    /\ \E p \in Procs : pc[p] = "idle" /\ outcome[p] = "panic"

\* C9: a cache constructed with a nil loader never exists, so no Get call is
\* the first point of failure of a nil loader.
C9_NilLoaderRejected ==
    \A p \in Procs : ~(cacheLoader = "nil" /\ pc[p] = "c_panic")

\* ------------------------------------------------------------- LazyConfig
\* No Get call has ended, or is about to end, in a panic.
NoLazyPanic ==
    /\ loadPanics = 0
    /\ \A p \in Procs : pc[p] # "l_panic"

\* C4: however the Get calls interleave, loadFunc returns at most once and
\* every Get that returned returned that one result; when no Get panicked,
\* loadFunc was invoked at most once in total.
C4_LoadFuncOnce ==
    /\ Cardinality(loadRets) <= 1
    /\ lcRet \subseteq loadRets
    /\ NoLazyPanic => loadCalls <= 1
    /\ (NoLazyPanic /\ lcRet # {}) => loadCalls = 1

\* Two Get calls overlap: one has loaded and is about to return, the other
\* waits for the mutex.
C4_Witness ==
    /\ pc[1] = "l_unlock"
    /\ pc[2] = "l_lock"
    /\ loadCalls = 1
    /\ lcGets.returned = 0

\* C5: IsLoaded returns false while no Get has been called and true once a
\* Get has returned, and when two Get calls have returned (none panicked)
\* loadFunc was invoked exactly once.
C5_IsLoadedAndMemoized ==
    /\ \A p \in Procs : pc[p] = "i_unlock" =>
          /\ lcGets.started = 0 => ok[p] = FALSE
          /\ lcGets.returned > 0 => ok[p] = TRUE
    /\ (lcGets.returned >= 2 /\ NoLazyPanic) => loadCalls = 1

\* Two Get calls have returned after one load and an IsLoaded call has read true.
C5_Witness ==
    /\ lcGets.returned = 2
    /\ loadCalls = 1
    /\ loadPanics = 0
    /\ \E p \in Procs : pc[p] = "i_unlock" /\ ok[p]

\* C8: when loadFunc panics in Get the panic reaches the caller with loaded
\* still false, config unset and the mutex released, and the failure is not
\* cached: loaded is true only with a config loadFunc returned, and no Get
\* returns anything else, so the next Get calls loadFunc again.
C8_LoadPanicNotRecorded ==
    /\ \A p \in Procs :
          /\ pc[p] = "l_panic" => (~lcLoaded /\ lcConfig = 0)
          /\ (pc[p] = "idle" /\ outcome[p] = "panic") => lcMu.writer # p
          /\ pc[p] \in {"idle", "l_lock", "i_lock"} => lcMu.writer # p
    /\ lcLoaded => lcConfig \in loadRets
    /\ lcRet \subseteq loadRets
    /\ (loadPanics > 0 /\ lcLoaded) => loadCalls > loadPanics

\* loadFunc panicked in one Get and a later Get called it again and loaded.
C8_Witness ==
    /\ lcLoadFunc = "fn"
    /\ loadPanics = 1
    /\ loadCalls = 2
    /\ lcLoaded
    /\ lcRet = {2}
    /\ \E p \in Procs : pc[p] = "idle" /\ outcome[p] = "panic"

\* ----------------------------------------------------------- ImmutableMap
GetStates == {"g_rlock", "g_read", "g_runlock"}
SetStates == {"s_lock", "s_make", "s_copy", "s_assign", "s_publish", "s_unlock"}
\* A Set(k, _) has been called and has not returned.
SetInFlight(k) == \E q \in Procs : pc[q] \in SetStates /\ key[q] = k

\* C2: what a Get has read is the lookup of its key in one whole snapshot, one
\* of those current between the Get's call and its read (each the snapshot
\* before it plus one Set's entry), and the map a Get reads under the read
\* lock is not one a Set is still filling.
C2_GetReadsOneSnapshot ==
    \A p \in Procs :
        /\ pc[p] = "g_runlock" =>
              \E i \in since[p]..Len(snapshots) :
                  <<val[p], ok[p]>> = Lookup(snapshots[i], key[p])
        /\ pc[p] \in {"g_read", "g_runlock"} =>
              \A q \in Procs :
                  pc[q] \in {"s_copy", "s_assign", "s_publish"} => newData[q] # mapData

\* A Get called before a Set published has read a key of the snapshot published
\* since, while another Set waits for the lock.
C2_Witness ==
    \E p, q \in Procs :
        /\ pc[p] = "g_runlock"
        /\ pc[q] = "s_lock"
        /\ Len(snapshots) > since[p]
        /\ ok[p]
        /\ <<val[p], ok[p]>> # Lookup(snapshots[since[p]], key[p])

\* C3: once a Set(k, v) has returned and while no other Set on k is in
\* progress, the map holds v for k and a Get(k) reads (v, true); the map holds
\* one entry for each key set so far.
C3_SetThenGet ==
    /\ \A k \in Keys : (lastSet[k] # 0 /\ ~SetInFlight(k)) =>
          /\ Lookup(heap[mapData], k) = <<lastSet[k], TRUE>>
          /\ \A p \in Procs : (pc[p] = "g_runlock" /\ key[p] = k) =>
                 <<val[p], ok[p]>> = <<lastSet[k], TRUE>>
    /\ (\A k \in Keys : ~SetInFlight(k)) =>
          Cardinality(DOMAIN heap[mapData]) = Cardinality({k \in Keys : lastSet[k] # 0})

\* Set("a", 1) and then Set("a", 2) have returned and a Get("a") has read (2, true).
C3_Witness ==
    /\ Len(snapshots) = 3
    /\ Lookup(snapshots[2], "a") = <<1, TRUE>>
    /\ lastSet["a"] = 2
    /\ DOMAIN heap[mapData] = {"a"}
    /\ \E p \in Procs : pc[p] = "g_runlock" /\ key[p] = "a" /\ val[p] = 2 /\ ok[p]

\* C6: a Get of an absent key reads the zero value and found = false and
\* returns normally, and no step of a Get changes the snapshot reference or
\* any map.
C6_GetMissAndFrame ==
    [][\A p \in Procs :
          /\ (pc[p] = "g_read" /\ pc'[p] = "g_runlock" /\ key[p] \notin DOMAIN heap[mapData]) =>
                 (val'[p] = 0 /\ ok'[p] = FALSE)
          /\ (pc[p] = "g_runlock" /\ pc'[p] # "g_runlock") =>
                 (pc'[p] = "idle" /\ outcome'[p] = "ret")
          /\ ((pc[p] \in GetStates \/ pc'[p] \in GetStates) /\ pc'[p] # pc[p]) =>
                 (mapData' = mapData /\ heap' = heap)]_vars

\* A Get("b") has read not-found on a map that holds only "a".
C6_Witness ==
    \E p \in Procs :
        /\ pc[p] = "g_runlock"
        /\ key[p] = "b"
        /\ DOMAIN heap[mapData] = {"a"}
        /\ val[p] = 0
        /\ ~ok[p]

\* C10: no step changes a map that ImmutableMap.data has held, and the map a
\* Set fills is a new one that ImmutableMap.data has not held.
C10_PublishedNeverModified ==
    [][/\ \A i \in pubIds : heap'[i] = heap[i]
       /\ \A q \in Procs :
             pc'[q] \in {"s_copy", "s_assign", "s_publish"} => newData'[q] \notin pubIds']_vars

\* Two Sets have published; the first one's snapshot is still what it was.
C10_Witness ==
    /\ Len(snapshots) = 3
    /\ pubIds = {1, 2, 3}
    /\ mapData = 3
    /\ heap[2] = snapshots[2]
    /\ heap[3] # heap[2]

\* ------------------------------------------------- LazyConfig, continued
LazyGetStates == {"l_lock", "l_check", "l_load", "l_loading", "l_setloaded", "l_unlock", "l_panic"}
IsLoadedStates == {"i_lock", "i_read", "i_unlock"}
\* The statements of Get between Lock and the deferred Unlock.
LazyLockedStates == LazyGetStates \ {"l_lock"}

\* C11: no step of any Get or IsLoaded call sets loaded back to false, and
\* once loaded is true no step changes config.
C11_LoadedIsTerminal ==
    [][lcLoaded => (lcLoaded' /\ lcConfig' = lcConfig)]_vars

\* The config is loaded and a later Get, called on the loaded config, holds
\* the mutex and is about to return it.
C11_Witness ==
    /\ lcLoaded
    /\ lcConfig = 1
    /\ lcGets.returned >= 1
    /\ \E p \in Procs : pc[p] = "l_unlock" /\ lcSeen[p]

\* C12: no step of an IsLoaded call invokes loadFunc or changes loaded or
\* config, whether the config is loaded or not.
C12_IsLoadedReadOnly ==
    [][\A p \in Procs :
          ((pc[p] \in IsLoadedStates \/ pc'[p] \in IsLoadedStates) /\ pc'[p] # pc[p]) =>
              /\ lcLoaded' = lcLoaded
              /\ lcConfig' = lcConfig
              /\ loadCalls' = loadCalls
              /\ pc'[p] \in IsLoadedStates \cup {"idle"}]_vars

\* A goroutine's second IsLoaded call has read false: the first did not load.
C12_Witness ==
    \E p \in Procs :
        /\ pc[p] = "i_unlock"
        /\ calls[p] = 2
        /\ lcGets.started = 0
        /\ ~ok[p]
        /\ ~lcLoaded
        /\ loadCalls = 0

C15_RecheckUnderWriteLock ==
    \A p \in Procs :
        /\ pc[p] \in {"c_check", "c_load", "c_loading", "c_store", "c_unlock", "c_panic"} =>
              (cacheMu.writer = p /\ cacheMu.readers = {})
        /\ pc[p] \in {"c_load", "c_loading", "c_store", "c_panic"} =>
              key[p] \notin DOMAIN cacheData
        /\ pc[p] = "c_unlock" =>
              (key[p] \in DOMAIN cacheData /\ val[p] = cacheData[key[p]])

\* A caller that missed on the fast path holds the write lock and is about to
\* look its key up again; another caller has inserted the key in between.
C15_Witness ==
    /\ pc[2] = "c_check"
    /\ cacheMu.writer = 2
    /\ calls[2] = 1
    /\ key[2] \in DOMAIN cacheData
    /\ loaderCalls[key[2]] = 1

\* C16: in a step taken while a loader is running in some Get, every other
\* goroutine is outside Get or waits for RLock or Lock, and it neither
\* acquires the lock nor returns from a Get, whatever its key.
C16_LoadBlocksOtherGets ==
    [][\A p, q \in Procs :
          (pc[p] = "c_loading" /\ q # p) =>
              /\ pc[q] \in {"idle", "c_rlock", "c_lock"}
              /\ pc[q] = "c_rlock" => pc'[q] = "c_rlock"
              /\ pc[q] = "c_lock" => pc'[q] = "c_lock"
              /\ cacheRet' = cacheRet]_vars

\* The loader runs for "a" while a Get("b") waits for the read lock, though
\* "b" is cached.
C16_Witness ==
    \E p, q \in Procs :
        /\ pc[p] = "c_loading" /\ key[p] = "a"
        /\ pc[q] = "c_rlock" /\ key[q] = "b"
        /\ "b" \in DOMAIN cacheData

\* C17 as stated: loads of different keys are not serialized, so a Get that
\* has to load one key is not held up by the load of another key.
C17_LoadsNotSerialized ==
    \A p, q \in Procs :
        (pc[p] = "c_loading" /\ pc[q] = "c_lock" /\ key[q] # key[p]) => CanLock(cacheMu)

\* C17, amended: the loader runs only under the one write lock of the cache,
\* so at most one loader invocation is in progress at a time, whatever the
\* keys, and the loader returns at most once for each key.
C17_LoadsSerialized ==
    /\ \A p, q \in Procs : (pc[p] = "c_loading" /\ q # p) => pc[q] # "c_loading"
    /\ \A p \in Procs : pc[p] = "c_loading" => cacheMu.writer = p
    /\ \A k \in Keys : Cardinality(loaderRets[k]) <= 1

\* The loader runs for "a" while a Get("b") that missed waits for the write lock.
C17_Witness ==
    \E p, q \in Procs :
        /\ pc[p] = "c_loading" /\ key[p] = "a"
        /\ pc[q] = "c_lock" /\ key[q] = "b"
        /\ "b" \notin DOMAIN cacheData

\* C19: no step removes a key that is present or changes its value or invokes
\* the loader for it, and a Get that returns for a present key returns the
\* present value.
C19_EntriesArePermanent ==
    [][\A k \in DOMAIN cacheData :
          /\ k \in DOMAIN cacheData'
          /\ cacheData'[k] = cacheData[k]
          /\ loaderCalls'[k] = loaderCalls[k]
          /\ cacheRet'[k] \subseteq cacheRet[k] \cup {cacheData[k]}]_vars

\* Both keys are cached and a later Get("a") is on the fast path.
C19_Witness ==
    /\ DOMAIN cacheData = {"a", "b"}
    /\ \E p \in Procs : pc[p] = "c_fast" /\ key[p] = "a" /\ calls[p] = 2

\* ------------------------------------------------ ImmutableMap, continued
\* C14: what Get would read for a key changes only in the step in which a
\* Set of that very key installs its new map; a Set(k, v) leaves the value
\* and the presence of every other key as they were.
C14_SetFrame ==
    [][\A k \in Keys :
          Lookup(heap'[mapData'], k) # Lookup(heap[mapData], k) =>
              \E p \in Procs : pc[p] = "s_publish" /\ pc'[p] = "s_unlock" /\ key[p] = k]_vars

\* Set("b", 2) has installed its map on a map that held "a" -> 1, and "a" is
\* still mapped to 1.
C14_Witness ==
    \E p \in Procs :
        /\ pc[p] = "s_unlock"
        /\ key[p] = "b"
        /\ Len(snapshots) = 3
        /\ Lookup(snapshots[2], "a") = <<1, TRUE>>
        /\ Lookup(heap[mapData], "a") = <<1, TRUE>>
        /\ Lookup(heap[mapData], "b") = <<2, TRUE>>

\* -------------------------------------------------------- ServiceRegistry
\* C13: however the Initialize and GetService calls of the goroutines
\* interleave, the function handed to once.Do runs at most once: at most one
\* goroutine is ever inside it, it has started at most once, and once done is
\* set it has run exactly once and has built the map and set initDone.
C13_InitBodyAtMostOnce ==
    /\ initRuns <= 1
    /\ \A p, q \in Procs :
          (pc[p] \in {"sr_services", "sr_initdone"} /\ q # p) =>
              pc[q] \notin {"sr_services", "sr_initdone"}
    /\ onceDone => (initRuns = 1 /\ srInitDone /\ srServices = BuiltServices)

\* Two goroutines passed the unlocked done check before the initialization;
\* one has initialized, the other now holds the mutex and reads done again.
C13_Witness ==
    \E p \in Procs :
        /\ pc[p] = "o_check"
        /\ onceDone
        /\ initRuns = 1
        /\ srInitDone

\* ------------------------------------------- Cache and ImmutableMap, shared
\* C20: Cache.data changes only in the store step of a Get whose goroutine
\* holds the write lock of the cache, and ImmutableMap.data changes only in
\* the step of a Set that installs its map while its goroutine holds the
\* write lock of the map; in both nobody else holds the lock, for reading or
\* for writing, and a lock held for writing has no reader at any time.
C20_WritesUnderExclusiveLock ==
    [][/\ cacheMu.writer # None => cacheMu.readers = {}
       /\ cacheMu'.writer # None => cacheMu'.readers = {}
       /\ mapMu.writer # None => mapMu.readers = {}
       /\ mapMu'.writer # None => mapMu'.readers = {}
       /\ cacheData' # cacheData =>
            \E p \in Procs :
                /\ pc[p] = "c_store" /\ pc'[p] = "c_unlock"
                /\ cacheMu.writer = p /\ cacheMu.readers = {}
                /\ cacheMu' = cacheMu
       /\ mapData' # mapData =>
            \E p \in Procs :
                /\ pc[p] = "s_publish" /\ pc'[p] = "s_unlock"
                /\ mapMu.writer = p /\ mapMu.readers = {}
                /\ mapMu' = mapMu]_vars

\* A Set has installed its map and still holds the write lock; a Get waits
\* for the read lock.
C20_Witness ==
    \E p, q \in Procs :
        /\ pc[p] = "s_unlock"
        /\ mapMu.writer = p
        /\ mapData = newData[p]
        /\ mapData \in pubIds
        /\ pc[q] = "g_rlock"

\* ---------------------------------------------------- LazyConfig, continued
\* C21: in every state in which loaded is true, config holds a value that
\* loadFunc returned; loaded becomes true only in the step after the
\* assignment to config, taken by the goroutine that holds the mutex, and
\* that step leaves config as it is.
C21_LoadedAfterConfig ==
    [][/\ lcLoaded => lcConfig \in loadRets
       /\ lcLoaded' => lcConfig' \in loadRets'
       /\ (~lcLoaded /\ lcLoaded') =>
            /\ lcConfig \in loadRets
            /\ lcConfig' = lcConfig
            /\ \E p \in Procs :
                   pc[p] = "l_setloaded" /\ pc'[p] = "l_unlock" /\ lcMu.writer = p]_vars

\* The config has been loaded and an IsLoaded caller has read loaded = true.
C21_Witness ==
    /\ lcLoaded
    /\ lcConfig = 1
    /\ loadRets = {1}
    /\ \E p \in Procs : pc[p] = "i_unlock" /\ ok[p]

\* ------------------------------------------------ ImmutableMap, continued
\* C24: when Set calls for two different keys have returned, however they
\* interleaved, both keys are present, each with the value of the last Set
\* of it that returned unless a further Set of it is under way; a Set holds
\* the write lock from its copy to the replacement of the reference, and the
\* map it installs has every entry of the map it replaces.
C24_NoLostUpdate ==
    /\ \A k1, k2 \in Keys :
          (k1 # k2 /\ lastSet[k1] # 0 /\ lastSet[k2] # 0) =>
              /\ {k1, k2} \subseteq DOMAIN heap[mapData]
              /\ ~SetInFlight(k1) => heap[mapData][k1] = lastSet[k1]
              /\ ~SetInFlight(k2) => heap[mapData][k2] = lastSet[k2]
    /\ \A p \in Procs :
          /\ pc[p] \in (SetStates \ {"s_lock"}) => (mapMu.writer = p /\ mapMu.readers = {})
          /\ pc[p] = "s_publish" =>
                \A k \in DOMAIN heap[mapData] :
                    /\ k \in DOMAIN heap[newData[p]]
                    /\ k # key[p] => heap[newData[p]][k] = heap[mapData][k]

\* Two goroutines have each called Set once, for different keys, and both
\* calls have returned.
C24_Witness ==
    /\ mapOps.sets = 2 /\ mapOps.gets = 0
    /\ \A p \in {1, 2} : pc[p] = "idle" /\ outcome[p] = "ret"
    /\ lastSet["a"] # 0 /\ lastSet["b"] # 0
    /\ DOMAIN heap[mapData] = {"a", "b"}

\* ----------------------------------------------- ServiceRegistry, continued
\* C29: a goroutine is past once.Do only when the initialization has
\* completed, so a GetService that has returned has returned the service
\* registered under its name, which is not nil, for "database", "cache" and
\* "queue", and nil for any other name.
C29_GetServiceAfterInit ==
    \A p \in Procs :
        /\ pc[p] \in {"o_ret", "sr_lookup"} =>
              (onceDone /\ srInitDone /\ srServices = BuiltServices)
        /\ (pc[p] = "idle" /\ outcome[p] = "ret" /\ caller[p] = "GetService") =>
              IF name[p] \in {"database", "cache", "queue"}
                 THEN svc[p] = BuiltServices[name[p]] /\ svc[p] # "nil"
                 ELSE svc[p] = "nil"

\* Two goroutines called GetService on the fresh registry; the one that asked
\* for "queue" has got it and the one that asked for "metrics" has got nil.
C29_Witness ==
    \E p, q \in Procs :
        /\ calls[p] = 1 /\ calls[q] = 1
        /\ pc[p] = "idle" /\ outcome[p] = "ret" /\ caller[p] = "GetService"
        /\ pc[q] = "idle" /\ outcome[q] = "ret" /\ caller[q] = "GetService"
        /\ name[p] = "queue" /\ svc[p] = "Queue"
        /\ name[q] = "metrics" /\ svc[q] = "nil"
        /\ initRuns = 1

\* ------------------------------- Cache, LazyConfig and ImmutableMap, fair
\* The goroutines call one of the three components (they have no state in
\* common).  A goroutine that is inside a call goes on: the scheduler runs
\* every runnable goroutine, sync.Mutex and sync.RWMutex let no waiter starve,
\* and the loader and loadFunc come to an end.  Nobody has to make a call.
LazyUntouched ==
    /\ \A p \in Procs : pc[p] \notin LazyGetStates \cup IsLoadedStates
    /\ lcGets.started = 0
    /\ (\E p \in Procs : calls[p] > 0) => ~CacheUntouched
CacheSteps(p) ==
    \/ CacheRLock(p) \/ CacheFast(p) \/ CacheLock(p) \/ CacheCheck(p)
    \/ CacheLoadCall(p) \/ CacheLoadReturn(p) \/ CacheLoadPanic(p)
    \/ CacheStore(p) \/ CacheUnlock(p) \/ CachePanicUnlock(p)
LazySteps(p) ==
    \/ LazyLock(p) \/ LazyCheck(p) \/ LazyLoadCall(p) \/ LazyLoadReturn(p)
    \/ LazyLoadPanic(p) \/ LazySetLoaded(p) \/ LazyUnlock(p) \/ LazyPanicUnlock(p)
    \/ IsLoadedLock(p) \/ IsLoadedRead(p) \/ IsLoadedUnlock(p)
MapSteps(p) ==
    \/ MapGetRLock(p) \/ MapGetRead(p) \/ MapGetRUnlock(p)
    \/ MapSetLock(p) \/ MapSetMake(p) \/ MapSetCopy(p) \/ MapSetAssign(p)
    \/ MapSetPublish(p) \/ MapSetUnlock(p)
InitLive == InitProcs /\ InitCacheWith({"fn"}) /\ InitLazyWith({"fn"}) /\ InitMap /\ InitReg /\ InitSlice /\ InitBatchWith({1}) /\ InitPool /\ InitAddWith({0})
NextLive ==
    \E p \in Procs :
        \/ MapUntouched /\ LazyUntouched /\ CacheGet(p)
        \/ MapUntouched /\ CacheUntouched /\ (LazyGet(p) \/ IsLoaded(p))
        \/ CacheUntouched /\ LazyUntouched /\ (MapGet(p) \/ MapSet(p))
FairLive == \A p \in Procs : SF_vars(CacheSteps(p) \/ LazySteps(p) \/ MapSteps(p))
SpecLive == InitLive /\ [][NextLive]_vars /\ FairLive

HoldsNoLock(p) ==
    /\ cacheMu.writer # p /\ p \notin cacheMu.readers
    /\ lcMu.writer # p /\ p \notin lcMu.readers
    /\ mapMu.writer # p /\ p \notin mapMu.readers

\* C26: every call of Cache.Get, LazyConfig.Get, LazyConfig.IsLoaded,
\* ImmutableMap.Get and ImmutableMap.Set that has started comes to its end,
\* by a return or by the panic of the loader, and its goroutine then holds
\* none of the locks; no call waits for ever.
C26_EveryCallEnds ==
    \A p \in Procs :
        (pc[p] # "idle") ~>
            (pc[p] = "idle" /\ outcome[p] \in {"ret", "panic"} /\ HoldsNoLock(p))

\* A Get that missed on the fast path has released the read lock and waits
\* for the write lock while another Get holds the read lock.
C26_Witness ==
    \E p, q \in Procs :
        /\ pc[p] = "c_lock"
        /\ pc[q] = "c_fast"
        /\ q \in cacheMu.readers
        /\ p \notin cacheMu.readers

\* --------------------------------------------------------- ImmutableSlice
\* C22: the container holds exactly the values appended so far, in order,
\* whatever the callers write into the slices they got from Get: such a write
\* leaves the array of the container as it is, a Get gives a slice with
\* exactly the values appended so far, in an array that is not the
\* container's, and Len gives their number.
C22_GetReturnsPrivateCopy ==
    [][/\ slArrs[slData] = slAppended
       /\ slArrs'[slData'] = slAppended'
       /\ \A p \in Procs :
            /\ slHeld'[p] # 0 => slHeld'[p] # slData'
            /\ slHeld'[p] # slHeld[p] => slArrs'[slHeld'[p]] = slAppended
       /\ slLen' # slLen => slLen' = Len(slAppended)
       /\ slArrs'[slData] # slArrs[slData] => slData' # slData]_vars

\* A goroutine has written into the slice it got from the first Get; the
\* second Get, by another goroutine and later, has given both appended
\* values, and Len has given 2.
C22_Witness ==
    \E p, q \in Procs :
        /\ slAppended = <<1, 2>>
        /\ slDirtyAt = 1
        /\ slGets = 2
        /\ slHeld[p] # 0
        /\ slArrs[slHeld[p]] = <<Scribble, 2>>
        /\ slHeld[q] # 0
        /\ slArrs[slHeld[q]] = slAppended
        /\ slLen = 2

\* -------------------------------------------------------- BatchHTTPClient
\* C23: on a client with batchSize >= 1 that one goroutine alone calls, Send
\* appends its request to pending; when a Send returns, pending is shorter
\* than batchSize and the Send has flushed exactly if it is a batchSize-th
\* Send; a flush takes all that is pending and leaves pending empty.
C23_FlushWhenFull ==
    [][(Cardinality(bCallers') <= 1 /\ bBatchSize >= 1) =>
          \A p \in Procs :
              /\ (pc[p] = "b_append" /\ pc'[p] # pc[p]) =>
                     bPending' = Append(bPending, bReq[p])
              /\ (pc[p] \in BatchStates /\ pc'[p] = "idle") =>
                     /\ Len(bPending') < bBatchSize
                     /\ bReq[p] \in bFlushers' <=> bReq[p] % bBatchSize = 0
              /\ (pc[p] = "b_clear" /\ pc'[p] # pc[p]) =>
                     /\ bPending' = <<>>
                     /\ bRequests[p] = bPending
                     /\ Len(bRequests[p]) = bBatchSize]_vars

\* One goroutine has sent four requests to a client with batchSize 2: the
\* second and the fourth Send have flushed, and nothing is pending.
C23_Witness ==
    /\ bBatchSize = 2
    /\ bCallers = {1}
    /\ bSent = 4
    /\ pc[1] = "idle"
    /\ bFlushers = {2, 4}
    /\ bPending = <<>>
    /\ \A r \in 1..4 : bFlushCount[r] = 1

\* C25: whatever goroutines call Send, every request that has been appended
\* is either still in pending and in no flushed batch, or in exactly one
\* flushed batch and no longer in pending, and a goroutine reads or clears
\* pending in flush only while it holds the mutex.
C25_EveryRequestInOneBatch ==
    /\ \A p \in Procs :
          pc[p] \in {"b_flush", "b_clear"} => bMu.writer = p
    /\ \A r \in Reqs :
          (r <= bSent /\ \A p \in Procs : ~(bReq[p] = r /\ pc[p] \in {"b_lock", "b_append"})) =>
              \/ bFlushCount[r] = 0 /\ r \in Range(bPending)
              \/ bFlushCount[r] = 1 /\ r \notin Range(bPending)

\* ------------------------------------------------------- Buffer and pool
\* C27: after any Write and Reset calls on a buffer its Length is between 0
\* and len(Data), and no Write has panicked on an out-of-range slice.
C27_LengthWithinData ==
    /\ \A i \in Bufs : 0 <= bufLength[i] /\ bufLength[i] <= DataLen
    /\ \A p \in Procs : outcome[p] # "panic"

C30_SameResult ==
    ({"value", "pointer"} \subseteq addDone) => addValueRet = addPointerRet
====
